---- MODULE Spec2Model ----
\* Model of streamlit_app.py (Chat to Cope): the matching helpers, the hotline
\* table loader and the chat handler that runs once per submitted message.
\*
\* A text (Python str) is a sequence of one-character strings, so that
\* lower(), strip(), the substring test and json.loads are computed, not assumed.
EXTENDS Integers, Sequences, FiniteSets, TLC

\* ---------------------------------------------------------------- bounds

\* Handled chat inputs per session.
MaxTurns == 2
\* Fragments concatenated into a test message.
MaxFrags == 3
\* Length of a symptom list, a tag list's owner list and a skill list.
MaxList == 2
\* Length of one tag list.
MaxTags == 2

\* ---------------------------------------------------------------- text

UpperCase == <<"A","B","C","D","E","F","G","H","I","J","K","L","M",
               "N","O","P","Q","R","S","T","U","V","W","X","Y","Z">>

LowerCase == <<"a","b","c","d","e","f","g","h","i","j","k","l","m",
               "n","o","p","q","r","s","t","u","v","w","x","y","z">>

Whitespace == {" ", "\n", "\t"}

\* upper-case letter -> lower-case letter
ToLower ==
    [c \in {UpperCase[i] : i \in 1..Len(UpperCase)} |->
        LowerCase[CHOOSE i \in 1..Len(UpperCase) : UpperCase[i] = c]]

LowerChar(c) == IF c \in DOMAIN ToLower THEN ToLower[c] ELSE c

\* str.lower()
lower(s) == [i \in 1..Len(s) |-> LowerChar(s[i])]

\* str.strip(): drop leading and trailing whitespace
RECURSIVE lstrip(_)
lstrip(s) ==
    IF s # <<>> /\ Head(s) \in Whitespace THEN lstrip(Tail(s)) ELSE s

RECURSIVE rstrip(_)
rstrip(s) ==
    IF s # <<>> /\ s[Len(s)] \in Whitespace
    THEN rstrip(SubSeq(s, 1, Len(s) - 1))
    ELSE s

strip(s) == rstrip(lstrip(s))

\* Python's `needle in hay` on strings: scan the start positions left to right.
RECURSIVE find_from(_, _, _)
find_from(needle, hay, i) ==
    IF i + Len(needle) - 1 > Len(hay) THEN FALSE
    ELSE IF SubSeq(hay, i, i + Len(needle) - 1) = needle THEN TRUE
    ELSE find_from(needle, hay, i + 1)

str_in(needle, hay) == find_from(needle, hay, 1)

\* set(list)
set(l) == {l[i] : i \in 1..Len(l)}

\* list(set): the iteration order of a Python set is not specified, so every
\* enumeration without repetition is a possible result.
list_of_set(S) ==
    {l \in [1..Cardinality(S) -> S] : set(l) = S}

\* dict.get(key, default)
dict_get(d, key, default) == IF key \in DOMAIN d THEN d[key] ELSE default

SeqsUpTo(S, n) == UNION {[1..k -> S] : k \in 0..n}

\* ---------------------------------------------------------------- helpers

\* variant: the symptom is compared as written, not lower-cased
extract_symptoms_nolower(user_input, symptom_list) ==
    SelectSeq(symptom_list, LAMBDA sym : str_in(sym, lower(user_input)))

\* [sym for sym in symptom_list if sym.lower() in user_input.lower()]
extract_symptoms(user_input, symptom_list) ==
    SelectSeq(symptom_list, LAMBDA sym : str_in(lower(sym), lower(user_input)))

\* tags = set(); for sym in symptoms: tags.update(ontology.get(sym, []))
RECURSIVE collect_tags(_, _, _)
collect_tags(symptoms, ontology, tags) ==
    IF symptoms = <<>> THEN tags
    ELSE collect_tags(Tail(symptoms), ontology,
                      tags \cup set(dict_get(ontology, Head(symptoms), <<>>)))

\* variant: only the first symptom's tags are collected
get_symptom_tags_first(symptoms, ontology) ==
    IF symptoms = <<>> THEN {<<>>}
    ELSE list_of_set(set(dict_get(ontology, Head(symptoms), <<>>)))

\* The possible return values: list(tags) in any order.
get_symptom_tags(symptoms, ontology) ==
    list_of_set(collect_tags(symptoms, ontology, {}))

\* for skill in skill_list: if set(skill.get("tags", [])) & set(tags): append
\* variant: a skill matches when all of its tags are among tags
match_skills_alltags(tags, skill_list) ==
    SelectSeq(skill_list,
              LAMBDA skill : set(dict_get(skill, "tags", <<>>)) \subseteq set(tags))

match_skills(tags, skill_list) ==
    SelectSeq(skill_list,
              LAMBDA skill : set(dict_get(skill, "tags", <<>>)) \cap set(tags) # {})

crisis_keywords ==
    << <<"s","u","i","c","i","d","e">>,
       <<"k","i","l","l"," ","m","y","s","e","l","f">>,
       <<"h","u","r","t"," ","m","y","s","e","l","f">>,
       <<"e","n","d","i","n","g"," ","m","y"," ","l","i","f","e">> >>

\* any(word in text.lower() for word in crisis_keywords)
\* variant: the text is searched as written, not lower-cased
detect_crisis_nolower(text) ==
    \E k \in 1..Len(crisis_keywords) : str_in(crisis_keywords[k], text)

detect_crisis(text) ==
    \E k \in 1..Len(crisis_keywords) : str_in(crisis_keywords[k], lower(text))

\* ---------------------------------------------------------------- json.loads

\* json.loads on the part of JSON the replies use: a string without escapes, a
\* number written with digits, a list of such scalars, or an object whose
\* values are such scalars. A parse returns [ok, kind, val, pos]; ok = FALSE is
\* json.JSONDecodeError.
Quote == "\""

Digits == {"0","1","2","3","4","5","6","7","8","9"}

JsonFail == [ok |-> FALSE, kind |-> "error", val |-> <<>>, pos |-> 0]

RECURSIVE skip_ws(_, _)
skip_ws(s, i) ==
    IF i <= Len(s) /\ s[i] \in (Whitespace \cup {"\r"}) THEN skip_ws(s, i + 1) ELSE i

RECURSIVE find_quote(_, _)
find_quote(s, j) ==
    IF j > Len(s) THEN 0
    ELSE IF s[j] = Quote THEN j
    ELSE find_quote(s, j + 1)

RECURSIVE digits_end(_, _)
digits_end(s, j) ==
    IF j <= Len(s) /\ s[j] \in Digits THEN digits_end(s, j + 1) ELSE j

\* i is at the opening quote and j at the closing one (0: there is none)
string_value(s, i, j) ==
    IF j = 0 THEN JsonFail
    ELSE [ok |-> TRUE, kind |-> "str", val |-> SubSeq(s, i + 1, j - 1), pos |-> j + 1]

\* i is at the first digit and j after the last one
number_value(s, i, j) ==
    [ok |-> TRUE, kind |-> "num", val |-> SubSeq(s, i, j - 1), pos |-> j]

parse_scalar(s, i) ==
    IF i > Len(s) THEN JsonFail
    ELSE IF s[i] = Quote THEN string_value(s, i, find_quote(s, i + 1))
    ELSE IF s[i] \in Digits THEN number_value(s, i, digits_end(s, i))
    ELSE JsonFail

EmptyDict == [k \in {} |-> k]

json_value(v) == [kind |-> v.kind, val |-> v.val]

\* List items: after "[" or ",", one scalar, then "," or "]".
RECURSIVE parse_items(_, _, _)
item_end(s, acc, k) ==
    IF k > Len(s) THEN JsonFail
    ELSE IF s[k] = "," THEN parse_items(s, k + 1, acc)
    ELSE IF s[k] = "]" THEN [ok |-> TRUE, kind |-> "list", val |-> acc, pos |-> k + 1]
    ELSE JsonFail

after_item(s, acc, v) ==
    IF ~v.ok THEN JsonFail
    ELSE item_end(s, Append(acc, json_value(v)), skip_ws(s, v.pos))

parse_items(s, i, acc) == after_item(s, acc, parse_scalar(s, skip_ws(s, i)))

\* Object members: after "{" or ",", "key" : scalar, then "," or "}"; a
\* repeated key keeps its last value.
RECURSIVE parse_members(_, _, _)
member_end(s, acc, k) ==
    IF k > Len(s) THEN JsonFail
    ELSE IF s[k] = "," THEN parse_members(s, k + 1, acc)
    ELSE IF s[k] = "}" THEN [ok |-> TRUE, kind |-> "dict", val |-> acc, pos |-> k + 1]
    ELSE JsonFail

after_member(s, acc, name, v) ==
    IF ~v.ok THEN JsonFail
    ELSE member_end(s, (name :> json_value(v)) @@ acc, skip_ws(s, v.pos))

after_colon(s, acc, name, c) ==
    IF c > Len(s) \/ s[c] # ":" THEN JsonFail
    ELSE after_member(s, acc, name, parse_scalar(s, skip_ws(s, c + 1)))

after_key(s, acc, key) ==
    IF ~key.ok \/ key.kind # "str" THEN JsonFail
    ELSE after_colon(s, acc, key.val, skip_ws(s, key.pos))

parse_members(s, i, acc) == after_key(s, acc, parse_scalar(s, skip_ws(s, i)))

\* j is the first position after "{" that is no whitespace
open_object(s, j) ==
    IF j <= Len(s) /\ s[j] = "}"
    THEN [ok |-> TRUE, kind |-> "dict", val |-> EmptyDict, pos |-> j + 1]
    ELSE parse_members(s, j, EmptyDict)

open_list(s, j) ==
    IF j <= Len(s) /\ s[j] = "]"
    THEN [ok |-> TRUE, kind |-> "list", val |-> <<>>, pos |-> j + 1]
    ELSE parse_items(s, j, <<>>)

parse_value(s, i) ==
    IF i > Len(s) THEN JsonFail
    ELSE IF s[i] = "{" THEN open_object(s, skip_ws(s, i + 1))
    ELSE IF s[i] = "[" THEN open_list(s, skip_ws(s, i + 1))
    ELSE parse_scalar(s, i)

\* the whole text must be one value, whitespace aside
whole_text(s, v) ==
    IF v.ok /\ skip_ws(s, v.pos) = Len(s) + 1 THEN v ELSE JsonFail

json_loads(s) == whole_text(s, parse_value(s, skip_ws(s, 1)))

\* ---------------------------------------------------------------- data

HOTLINE == <<"h","o","t","l","i","n","e">>

WARMLINE == <<"w","a","r","m","l","i","n","e">>

NONE == <<"n","o","n","e">>

\* Python None (session resource_offered before any offer); it is falsy.
None == <<"<None>">>

\* df['type'] = df['type'].str.strip().str.lower(); the column headers are
\* taken as already normalised.
load_hotline(csv) ==
    [i \in 1..Len(csv) |-> [csv[i] EXCEPT !["type"] = lower(strip(@))]]

\* Rows of Hotline_Warmline_Data.csv as read by pandas, `type` as written in the file.
CsvWithDescription ==
    << [type |-> <<" ","H","o","t","l","i","n","e">>, name |-> "Crisis Line A",
        phone_number |-> "988", description |-> "24/7 crisis line"],
       [type |-> HOTLINE, name |-> "Crisis Line B",
        phone_number |-> "111", description |-> ""],
       [type |-> <<"W","A","R","M","L","I","N","E"," ">>, name |-> "Warmline A",
        phone_number |-> "222", description |-> "peer support"] >>

CsvNoHotline ==
    << [type |-> WARMLINE, name |-> "Warmline B", phone_number |-> "333"],
       [type |-> <<"W","a","r","m","l","i","n","e">>, name |-> "Warmline A",
        phone_number |-> "222"] >>

CsvOtherFirst ==
    << [type |-> <<"t","e","x","t">>, name |-> "Text Line", phone_number |-> "741"],
       [type |-> <<"H","O","T","L","I","N","E">>, name |-> "Crisis Line B",
        phone_number |-> "111"],
       [type |-> HOTLINE, name |-> "Crisis Line A", phone_number |-> "988"] >>

CsvFiles == {<<>>, CsvWithDescription, CsvNoHotline, CsvOtherFirst}

SAD == <<"s","a","d">>

NUMB == <<"n","u","m","b">>

FEAR == <<"f","e","a","r">>

\* symptom_ontology.json: symptom -> tags
OntologySample == (SAD :> <<"mood", "mood">>)

\* final_DSM-5_data.json: term -> definition; "numb" is a key of this file only
Dsm5Sample == (SAD :> "feeling down") @@ (NUMB :> "emotional blunting")

\* coping_skills.json: skill records; "tags" may be missing
SkillsSample ==
    << [skill |-> "Breathing", description |-> "slow breaths", tags |-> <<"anxiety">>],
       [skill |-> "Walk", description |-> "go outside", tags |-> <<"mood">>],
       [skill |-> "Journal", description |-> "write it down"],
       [skill |-> "Call a friend", description |-> "reach out", tags |-> <<"low", "lonely">>],
       [skill |-> "Music", description |-> "listen", tags |-> <<"mood", "low">>],
       [skill |-> "Stretch", description |-> "move", tags |-> <<>>],
       [skill |-> "Sleep", description |-> "rest", tags |-> <<"low">>] >>

\* ---------------------------------------------------------------- inputs

\* What the user types into st.chat_input.
Prompts ==
    { <<"Y","e","s">>,
      <<"o","k">>,
      <<"S","a","d",","," ","n","u","m","b">>,
      <<"K","i","l","l"," ","m","y","s","e","l","f">> }

\* What the first (classifier) completion returns.
ClassifierReplies ==
    { <<" ","H","o","t","l","i","n","e","\n">>,
      WARMLINE,
      NONE,
      <<"u","n","s","u","r","e">> }

REPLY == <<"r","e","p","l","y">>

\* What the final completion returns: an object with "reply", an object
\* without it, text that is not JSON, and JSON that is a list.
FinalReplies ==
    { <<"{",Quote,"r","e","p","l","y",Quote,":"," ",Quote,"H","i",Quote,"}">>,
      <<"{",Quote,"a",Quote,":","1","}">>,
      <<"H","i","!","\n">>,
      <<"[",Quote,"H","i",Quote,"]">> }

CONFIRM_WORDS ==
    { <<"y","e","s">>, <<"y","e","a","h">>, <<"s","u","r","e">>,
      <<"o","k","a","y">>, <<"o","k">> }

\* ---------------------------------------------------------------- state

VARIABLES
    \* st.session_state
    api_key, resource_offered, messages,
    \* the rows of the CSV file, and the data loaded at start-up
    symptom_ontology, coping_skills, final_dsm5_data, hotline_csv, hotline_df,
    \* the names bound by the last run of the chat handler, and their values
    bound, prompt, resource_requested, symptoms, recommended_skills,
    llm_resource_type, resource_type, resource_info, system_prompt,
    skills_text, raw, full_response,
    \* the exception that ended the last run ("" when it ran to its end), the
    \* chat messages it rendered, and the number of runs
    error, displayed, turns,
    \* a direct call of one helper and its return value
    call, ret

session_vars == <<api_key, resource_offered, messages>>

data_vars == <<symptom_ontology, coping_skills, final_dsm5_data, hotline_csv, hotline_df>>

run_vars == <<bound, prompt, resource_requested, symptoms, recommended_skills,
              llm_resource_type, resource_type, resource_info, system_prompt,
              skills_text, raw, full_response, error, displayed, turns>>

fn_vars == <<call, ret>>

vars == <<session_vars, data_vars, run_vars, fn_vars>>

NoCall == [fn |-> "none"]

NoReturn == [done |-> FALSE]

\* The session right after the script's first run: no key, nothing offered,
\* no history; no chat input has been handled.
InitSession ==
    /\ api_key = ""
    /\ resource_offered = None
    /\ messages = <<>>
    /\ bound = {}
    /\ prompt = <<>>
    /\ resource_requested = FALSE
    /\ symptoms = <<>>
    /\ recommended_skills = <<>>
    /\ llm_resource_type = <<>>
    /\ resource_type = <<>>
    /\ resource_info = EmptyDict
    /\ system_prompt = <<>>
    /\ skills_text = <<>>
    /\ raw = <<>>
    /\ full_response = <<>>
    /\ error = ""
    /\ displayed = <<>>
    /\ turns = 0

InitData ==
    /\ symptom_ontology = OntologySample
    /\ coping_skills = SkillsSample
    /\ final_dsm5_data = Dsm5Sample
    /\ hotline_csv \in CsvFiles
    /\ hotline_df = load_hotline(hotline_csv)

Init ==
    /\ InitSession
    /\ InitData
    /\ call = NoCall
    /\ ret = NoReturn

\* ---------------------------------------------------------------- chat handler

\* The key typed into the password box is stored and the script reruns.
SetApiKey ==
    /\ api_key = ""
    /\ api_key' = "sk-key"
    /\ UNCHANGED <<resource_offered, messages, data_vars, run_vars, fn_vars>>

user_message(content) == [role |-> "user", content |-> content]

assistant_message(content) == [role |-> "assistant", content |-> content]

\* resource_info built from the first row of the filtered frame
row_info(row) ==
    [name |-> dict_get(row, "name", ""),
     phone |-> dict_get(row, "phone_number", ""),
     description |-> dict_get(row, "description", "")]

instruction_tail(info) ==
    <<"Resource name: ", info.name, "Phone number: ", info.phone>>
    \o (IF info.description # "" THEN <<"Description: ", info.description>> ELSE <<>>)

confirmed_instruction(info) ==
    <<"3) CRITICAL: The user has confirmed they want the resource information.">>
    \o instruction_tail(info)

offer_instruction(info) ==
    <<"3) IMPORTANT: You MUST incorporate the following resource information into your reply:">>
    \o instruction_tail(info)

build_system_prompt(info, instruction) ==
    <<"You are a compassionate mental health assistant.",
      "4) Determine resource_type:">>
    \o (IF DOMAIN info # {} THEN instruction ELSE <<>>)
    \o <<"Please **only** return a JSON object in the following format:">>

RECURSIVE join_lines(_)
join_lines(lines) ==
    IF lines = <<>> THEN <<>>
    ELSE IF Len(lines) = 1 THEN Head(lines)
    ELSE Head(lines) \o <<"\n">> \o join_lines(Tail(lines))

skill_line(s) == <<"- ", s.skill, ": ", s.description>>

NO_SKILLS_TEXT == <<"No specific coping skills matched.">>

\* "\n".join(line for s in recommended_skills[:3]) or "No specific ..."
build_skills_text(skills) ==
    LET first3 == SubSeq(skills, 1, IF Len(skills) < 3 THEN Len(skills) ELSE 3)
        joined == join_lines([i \in 1..Len(first3) |-> skill_line(first3[i])])
    IN IF joined = <<>> THEN NO_SKILLS_TEXT ELSE joined

\* hotline_df[hotline_df["type"] == resource_type]
\* variant: the last matching row is kept instead of the first
rows_of_type_last(df, type) ==
    LET sel == SelectSeq(df, LAMBDA row : row.type = type)
    IN IF sel = <<>> THEN sel ELSE <<sel[Len(sel)]>>

rows_of_type(df, type) == SelectSeq(df, LAMBDA row : row.type = type)

\* if st.session_state.resource_offered and prompt.lower() in ["yes", ...]
is_confirmation(p) == resource_offered # None /\ lower(p) \in CONFIRM_WORDS

\* if llm_resource_type in ["hotline", "warmline", "none"]: resource_type = llm_resource_type
\* variant: the classifier's label is never taken
validated_type_ignored(llm, type0) == type0

validated_type(llm, type0) ==
    IF llm \in {HOTLINE, WARMLINE, NONE} THEN llm ELSE type0

\* The handler's namespace at the end of one run on the chat input p, where c1
\* is the text of the classifier completion, c2 the text of the final
\* completion, syms the list extract_symptoms returned and tags the list
\* get_symptom_tags returned. A name the run never bound holds <<>>.
\* Left out, as nothing reads them: explanatory_defs and user_prompt (built
\* after skills_text, from symptoms), the glossary text of the system prompt,
\* and the last assignment to resource_type from the reply's "resource_type".
Locals(p, c1, c2, syms, tags) ==
    LET requested == is_confirmation(p)
        skills == match_skills(tags, coping_skills)
        type0 == IF requested THEN resource_offered ELSE NONE
        llm == lower(strip(c1))
        type1 == validated_type(llm, type0)
        df_res == IF type1 \in {HOTLINE, WARMLINE}
                  THEN rows_of_type(hotline_df, type1) ELSE <<>>
        found == df_res # <<>>
        info == IF found THEN row_info(df_res[1]) ELSE EmptyDict
        instruction == IF ~found THEN <<>>
                       ELSE IF requested THEN confirmed_instruction(info)
                       ELSE offer_instruction(info)
        \* recommended_skills is bound only on the symptom branch
        name_error == requested
        text == strip(c2)
        result == json_loads(text)
        \* result.get on a value that is no dict
        attribute_error == ~name_error /\ result.ok /\ result.kind # "dict"
        completed == ~name_error /\ ~attribute_error
        response == IF result.ok /\ result.kind = "dict" /\ REPLY \in DOMAIN result.val
                    THEN result.val[REPLY].val
                    ELSE text
    IN [prompt |-> p,
        resource_requested |-> requested,
        symptoms |-> IF requested THEN <<>> ELSE syms,
        recommended_skills |-> IF requested THEN <<>> ELSE skills,
        llm_resource_type |-> llm,
        resource_type |-> type1,
        resource_info |-> info,
        resource_offered |-> IF found THEN type1 ELSE resource_offered,
        system_prompt |-> build_system_prompt(info, instruction),
        skills_text |-> IF name_error THEN <<>> ELSE build_skills_text(skills),
        raw |-> IF name_error THEN <<>> ELSE text,
        full_response |-> IF completed THEN response ELSE <<>>,
        error |-> IF name_error THEN "NameError"
                  ELSE IF attribute_error THEN "AttributeError"
                  ELSE "",
        bound |-> {"prompt", "resource_requested", "resource_type", "llm_resource_type",
                   "resource_info", "system_prompt"}
                  \cup (IF requested THEN {} ELSE {"symptoms", "tags", "recommended_skills"})
                  \cup (IF found THEN {"resource_instruction"} ELSE {})
                  \cup (IF name_error THEN {} ELSE {"skills_text", "raw"})
                  \cup (IF completed THEN {"full_response"} ELSE {}),
        shown |-> <<user_message(p)>>
                  \o (IF completed THEN <<assistant_message(response)>> ELSE <<>>)]

Run(p, c1, c2, syms, tags) ==
    \E L \in {Locals(p, c1, c2, syms, tags)} :
       /\ prompt' = L.prompt
       /\ resource_requested' = L.resource_requested
       /\ symptoms' = L.symptoms
       /\ recommended_skills' = L.recommended_skills
       /\ llm_resource_type' = L.llm_resource_type
       /\ resource_type' = L.resource_type
       /\ resource_info' = L.resource_info
       /\ resource_offered' = L.resource_offered
       /\ system_prompt' = L.system_prompt
       /\ skills_text' = L.skills_text
       /\ raw' = L.raw
       /\ full_response' = L.full_response
       /\ error' = L.error
       /\ bound' = L.bound
       /\ displayed' = L.shown
       /\ messages' = messages \o L.shown
       /\ turns' = turns + 1

\* A chat input is submitted (st.chat_input returns a non-empty text) and the
\* script runs the handler on it. SYMPTOM_LIST is rebuilt by every run of the
\* script, in any order of the key set. On the confirmation branch the run
\* ends before the final completion is requested.
ChatInput ==
    /\ api_key # ""
    /\ turns < MaxTurns
    /\ \E p \in Prompts, c1 \in ClassifierReplies :
         IF is_confirmation(p)
         THEN Run(p, c1, <<>>, <<>>, <<>>)
         ELSE \E c2 \in FinalReplies :
              \E SYMPTOM_LIST \in list_of_set(DOMAIN symptom_ontology \cup DOMAIN final_dsm5_data) :
              \E syms \in {extract_symptoms(p, SYMPTOM_LIST)} :
              \E tags \in get_symptom_tags(syms, symptom_ontology) :
                Run(p, c1, c2, syms, tags)
    /\ UNCHANGED <<api_key, data_vars, fn_vars>>

Next == SetApiKey \/ ChatInput

Spec == Init /\ [][Next]_vars

\* ---------------------------------------------------------------- direct calls of the helpers

RECURSIVE concat(_)
concat(parts) == IF parts = <<>> THEN <<>> ELSE Head(parts) \o concat(Tail(parts))

\* The texts made of at most n fragments of F.
Texts(F, n) == {concat(parts) : parts \in SeqsUpTo(F, n)}

CrisisFragments ==
    { <<"s","u","i","c">>, <<"i","d","e">>, <<"S","U","I","C","I","D","E">>,
      <<"K","i","l","l">>, <<" ">>, <<"m","y","s","e","l","f">>, <<"h","u","r","t">>,
      <<"E","n","d","i","n","g"," ","m","y"," ","l","i","f","e">>, <<"x">> }

MessageFragments == { <<"S","a","d">>, <<" ">>, <<"x">>, <<"N","U","M","B">> }

SymptomNames == { SAD, <<"S","a","d"," ","X">>, NUMB }

TagNames == {"mood", "low"}

TagLists == SeqsUpTo(TagNames, MaxTags)

Ontologies == UNION {[K -> TagLists] : K \in SUBSET {SAD, FEAR}}

SkillRecords ==
    {[skill |-> n, description |-> "d"] : n \in {"Walk", "Music"}}
    \cup {[skill |-> n, description |-> "d", tags |-> t] :
            n \in {"Walk", "Music"}, t \in {<<>>, <<"mood">>, <<"low", "mood">>}}

CrisisCalls == {[fn |-> "detect_crisis", text |-> t] : t \in Texts(CrisisFragments, MaxFrags)}

ExtractCalls ==
    {[fn |-> "extract_symptoms", user_input |-> m, symptom_list |-> S] :
        m \in Texts(MessageFragments, MaxFrags), S \in SeqsUpTo(SymptomNames, MaxList)}

TagCalls ==
    {[fn |-> "get_symptom_tags", symptoms |-> S, ontology |-> o] :
        S \in SeqsUpTo({SAD, FEAR, NUMB}, MaxList), o \in Ontologies}

SkillCalls ==
    {[fn |-> "match_skills", tags |-> t, skill_list |-> l] :
        t \in TagLists, l \in SeqsUpTo(SkillRecords, MaxList)}

InitFn ==
    /\ InitSession
    /\ symptom_ontology = OntologySample
    /\ coping_skills = SkillsSample
    /\ final_dsm5_data = Dsm5Sample
    /\ hotline_csv = CsvWithDescription
    /\ hotline_df = load_hotline(hotline_csv)
    /\ call \in CrisisCalls \cup ExtractCalls \cup TagCalls \cup SkillCalls
    /\ ret = NoReturn

Returns(value) ==
    /\ ret' = [done |-> TRUE, value |-> value]
    /\ UNCHANGED <<call, session_vars, data_vars, run_vars>>

CallExtractSymptoms ==
    /\ call.fn = "extract_symptoms" /\ ~ret.done
    /\ Returns(extract_symptoms(call.user_input, call.symptom_list))

CallGetSymptomTags ==
    /\ call.fn = "get_symptom_tags" /\ ~ret.done
    /\ \E l \in get_symptom_tags(call.symptoms, call.ontology) : Returns(l)

CallMatchSkills ==
    /\ call.fn = "match_skills" /\ ~ret.done
    /\ Returns(match_skills(call.tags, call.skill_list))

CallDetectCrisis ==
    /\ call.fn = "detect_crisis" /\ ~ret.done
    /\ Returns(detect_crisis(call.text))

NextFn == CallExtractSymptoms \/ CallGetSymptomTags \/ CallMatchSkills \/ CallDetectCrisis

SpecFn == InitFn /\ [][NextFn]_vars

\* ---------------------------------------------------------------- properties

\* p occurs in t: t = u \o p \o v for some u and v
Occurs(p, t) ==
    \E i \in 0..Len(t) : \E j \in i..Len(t) : SubSeq(t, i + 1, j) = p

Count(l, x) == Cardinality({i \in 1..Len(l) : l[i] = x})

Least(S) == CHOOSE i \in S : \A j \in S : i <= j

CrisisPhrases ==
    { <<"s","u","i","c","i","d","e">>,
      <<"k","i","l","l"," ","m","y","s","e","l","f">>,
      <<"h","u","r","t"," ","m","y","s","e","l","f">>,
      <<"e","n","d","i","n","g"," ","m","y"," ","l","i","f","e">> }

HasCrisisPhrase(text) == \E ph \in CrisisPhrases : Occurs(ph, lower(text))

RowsOfType(T) == {i \in 1..Len(hotline_csv) : lower(strip(hotline_csv[i].type)) = T}

InfoOfRow(r) ==
    [name |-> r.name, phone |-> r.phone_number,
     description |-> IF "description" \in DOMAIN r THEN r.description ELSE ""]

\* the last run resolved a resource from a row of type T
Resolved(T) ==
    /\ resource_type = T
    /\ DOMAIN resource_info # {}
    /\ \E i \in RowsOfType(T) : resource_info = InfoOfRow(hotline_csv[i])

InstructionHeaders ==
    {"3) CRITICAL: The user has confirmed they want the resource information.",
     "3) IMPORTANT: You MUST incorporate the following resource information into your reply:"}

NoInstructionIn(sp) == \A k \in 1..Len(sp) : sp[k] \notin InstructionHeaders

MatchesNoSymptom(text) ==
    \A sym \in DOMAIN symptom_ontology \cup DOMAIN final_dsm5_data :
        ~Occurs(lower(sym), lower(text))

\* C1 (as written): whenever a handled message contains a crisis phrase and the
\* table has a hotline row, the run resolves a hotline row, whatever the
\* classifier returned.
C1_CrisisAlwaysHotline ==
    (turns > 0 /\ HasCrisisPhrase(prompt) /\ RowsOfType(HOTLINE) # {})
        => Resolved(HOTLINE)

\* C1 (amended): whenever a handled message contains a crisis phrase and the
\* table has a hotline row, the run resolves a hotline row exactly when the
\* classifier's reply, stripped and lower-cased, is "hotline".
C1_CrisisHotlineIffClassifier ==
    (turns > 0 /\ HasCrisisPhrase(prompt) /\ RowsOfType(HOTLINE) # {})
        => (Resolved(HOTLINE) <=> llm_resource_type = HOTLINE)

C1_Witness ==
    /\ turns > 0 /\ HasCrisisPhrase(prompt) /\ RowsOfType(HOTLINE) # {}
    /\ llm_resource_type = HOTLINE
    /\ Resolved(HOTLINE)
    /\ resource_offered = HOTLINE

\* C2: whenever a handled message matches no symptom of SYMPTOM_LIST, in every
\* session state, the run's symptom list is empty and its skills_text is the
\* literal "No specific coping skills matched.".
C2_UnmatchedGivesNoSkillsText ==
    (turns > 0 /\ MatchesNoSymptom(prompt))
        => /\ "symptoms" \in bound /\ symptoms = <<>>
           /\ "skills_text" \in bound /\ skills_text = NO_SKILLS_TEXT

\* C3: whenever the final completion returned a text, the run ends without an
\* error and displays and stores exactly one assistant message: the value of
\* "reply" when the text is a JSON object that has it, the text itself otherwise.
C3_ReplyOrRawText ==
    ("raw" \in bound)
        => LET parsed == json_loads(raw)
               expected == IF parsed.ok /\ parsed.kind = "dict" /\ REPLY \in DOMAIN parsed.val
                           THEN parsed.val[REPLY].val
                           ELSE raw
           IN /\ error = ""
              /\ displayed = <<user_message(prompt), assistant_message(expected)>>
              /\ Len(messages) >= 2
              /\ messages[Len(messages)] = assistant_message(expected)
              /\ messages[Len(messages) - 1] = user_message(prompt)

\* C4: in every run, a resource type of "hotline" or "warmline" that has a row
\* in the table resolves the first row, in table order, whose normalised type
\* is that type; otherwise nothing is resolved, the system prompt carries no
\* resource instruction and resource_offered keeps its value.
C4_FirstRowOfType ==
    [][turns' # turns =>
        LET T == resource_type'
            rows == RowsOfType(T)
        IN IF T \in {HOTLINE, WARMLINE} /\ rows # {}
           THEN resource_info' = InfoOfRow(hotline_csv[Least(rows)])
           ELSE /\ DOMAIN resource_info' = {}
                /\ NoInstructionIn(system_prompt')
                /\ resource_offered' = resource_offered]_vars

C4_Witness ==
    /\ turns > 0
    /\ resource_type = HOTLINE
    /\ Cardinality(RowsOfType(HOTLINE)) >= 2
    /\ 1 \notin RowsOfType(HOTLINE)
    /\ hotline_csv[Least(RowsOfType(HOTLINE))].type # HOTLINE
    /\ resource_info = InfoOfRow(hotline_csv[Least(RowsOfType(HOTLINE))])

\* C5: extract_symptoms(m, S) returns exactly the elements of S whose
\* lower-case form occurs in the lower-case form of m, each as many times as
\* it is in S.
C5_ExtractExactly ==
    (call.fn = "extract_symptoms" /\ ret.done)
        => \A x \in set(call.symptom_list) \cup set(ret.value) :
              Count(ret.value, x) =
                 IF Occurs(lower(x), lower(call.user_input))
                 THEN Count(call.symptom_list, x)
                 ELSE 0

C5_Witness ==
    /\ call.fn = "extract_symptoms" /\ ret.done
    /\ \E x \in set(call.symptom_list) :
          /\ Count(call.symptom_list, x) = 2 /\ Count(ret.value, x) = 2
          /\ x # lower(x)
    /\ call.user_input # lower(call.user_input)

\* C6: get_symptom_tags returns a list without duplicates whose elements are
\* the union of the ontology's tag lists of the symptoms that are ontology
\* keys; a symptom that is no key adds nothing.
C6_TagsAreUnion ==
    (call.fn = "get_symptom_tags" /\ ret.done)
        => /\ \A i, j \in 1..Len(ret.value) : ret.value[i] = ret.value[j] => i = j
           /\ set(ret.value) =
                 UNION {set(call.ontology[sym]) :
                          sym \in set(call.symptoms) \cap DOMAIN call.ontology}

C6_Witness ==
    /\ call.fn = "get_symptom_tags" /\ ret.done
    /\ Len(call.symptoms) = 2
    /\ call.symptoms[1] \notin DOMAIN call.ontology
    /\ call.symptoms[2] \in DOMAIN call.ontology
    /\ Len(call.ontology[call.symptoms[2]]) = 2
    /\ Len(ret.value) = 1

\* C7: match_skills(tags, skills) returns the entries of the skill list whose
\* tag set meets tags, each entry once and in list order; an entry without
\* tags or with an empty tag list is never returned, and empty tags give an
\* empty result.
C7_MatchExactly ==
    (call.fn = "match_skills" /\ ret.done)
        => LET skills == call.skill_list
               hit == {i \in 1..Len(skills) :
                         /\ "tags" \in DOMAIN skills[i]
                         /\ \E t \in set(skills[i].tags) : t \in set(call.tags)}
               nth(k) == CHOOSE i \in hit : Cardinality({j \in hit : j <= i}) = k
           IN /\ Len(ret.value) = Cardinality(hit)
              /\ \A k \in 1..Len(ret.value) : ret.value[k] = skills[nth(k)]
              /\ \A k \in 1..Len(ret.value) :
                    "tags" \in DOMAIN ret.value[k] /\ ret.value[k].tags # <<>>
              /\ call.tags = <<>> => ret.value = <<>>

C7_Witness ==
    /\ call.fn = "match_skills" /\ ret.done
    /\ Len(call.skill_list) = 2
    /\ "tags" \notin DOMAIN call.skill_list[1]
    /\ ret.value = <<call.skill_list[2]>>
    /\ Len(call.skill_list[2].tags) = 2
    /\ Len(call.tags) = 1

\* C8: detect_crisis(text) is true exactly when one of the four phrases occurs
\* in the lower-case form of text; it is false for the empty text.
C8_CrisisIffPhrase ==
    (call.fn = "detect_crisis" /\ ret.done)
        => /\ ret.value <=> HasCrisisPhrase(call.text)
           /\ call.text = <<>> => ret.value = FALSE

C8_Witness ==
    /\ call.fn = "detect_crisis" /\ ret.done
    /\ ret.value = TRUE
    /\ call.text # lower(call.text)
    /\ ~Occurs(<<"s","u","i","c","i","d","e">>, lower(call.text))

\* C9, on the confirmation path: a handled message that confirms an offered
\* resource is followed in the history by exactly one assistant message.
C9_ConfirmationIsAnswered ==
    (turns > 0 /\ resource_requested)
        => /\ Len(messages) >= 2
           /\ messages[Len(messages)].role = "assistant"
           /\ messages[Len(messages) - 1] = user_message(prompt)

\* C10: when resource_offered is T, the table has a row of type T and the next
\* message is a confirmation word in any letter case, the run resolves a
\* resource of type T and the system prompt carries the "user has confirmed"
\* instruction with its name and phone number, whatever the classifier returned.
C10_ConfirmedResourceKept ==
    [][(/\ turns' # turns
        /\ resource_offered \in {HOTLINE, WARMLINE}
        /\ RowsOfType(resource_offered) # {}
        /\ lower(prompt') \in CONFIRM_WORDS)
        => LET T == resource_offered
           IN /\ resource_type' = T
              /\ DOMAIN resource_info' # {}
              /\ \E i \in RowsOfType(T) : resource_info' = InfoOfRow(hotline_csv[i])
              /\ \E k \in 1..Len(system_prompt') :
                    /\ k + 4 <= Len(system_prompt')
                    /\ system_prompt'[k] =
                         "3) CRITICAL: The user has confirmed they want the resource information."
                    /\ system_prompt'[k + 2] = resource_info'.name
                    /\ system_prompt'[k + 4] = resource_info'.phone]_vars

====
